---- MODULE Spec2Model ----
(***************************************************************************)
(* Model of caffe2/core/transform.cc: Transform::PatternMatch (the          *)
(* backtracking subgraph search with its three traversal strategies),       *)
(* Transform::ReplacePattern and Transform::ApplyTo.                        *)
(*                                                                          *)
(* The recursion of PatternMatchHelper is unfolded into an explicit stack   *)
(* of frames; a frame holds the locals of one activation (size_before and   *)
(* the loop iterators).  PatternRule, ValidatorRule and ReplaceRule are     *)
(* virtual members supplied by the concrete transform: they are inputs,     *)
(* drawn from small families.                                               *)
(***************************************************************************)
EXTENDS Integers, Sequences, FiniteSets, TLC

VARIABLES
    graph,                \* transform::Graph: size, adjacency, active flags
    pattern_match_type_,  \* Transform::pattern_match_type_
    rules,                \* which PatternRule / ValidatorRule the transform has
    matched,              \* PatternMatch: std::vector<bool> matched
    matches,              \* PatternMatch: the result list
    idx,                  \* PatternMatch: loop variable of the start index
    subgraph,             \* the working subgraph
    best_subgraph,        \* the largest validated subgraph of this start index
    stack,                \* activations of PatternMatchHelper, innermost last
    pc,                   \* position of the (single) thread of control
    rp,                   \* ReplacePattern: position in the list of matches
    rewrites,             \* history: the ReplaceRule calls made so far
    calls,                \* history: the PatternRule / ValidatorRule calls
    run,                  \* which run this is (1 or 2), where a call or
                          \* a start index is run twice to be compared
    first                 \* history: what the first run returned, called
                          \* and found best

vars == <<graph, pattern_match_type_, rules, run, first, matched, matches,
          idx, subgraph, best_subgraph, stack, pc, rp, rewrites, calls>>

(***************************************************************************)
(* Bounds and input families                                                *)
(***************************************************************************)
MaxNodes == 3

Strategies ==
    {"CONNECTED_SUBGRAPH", "SORTED_WRT_EXECUTION_ORDER", "GENERAL", "UNKNOWN"}

AcceptRules == {"all", "none", "child_of_last", "short", "skip_one"}

ValidateRules == {"size1", "size_ge2", "all", "ends_at_leaf"}

Nodes(n) == 0 .. (n - 1)

\* Edges of a graph built from an operator list: producer before consumer.
ForwardEdges(n) == {e \in Nodes(n) \X Nodes(n) : e[1] < e[2]}

Range(s) == {s[k] : k \in 1 .. Len(s)}

RECURSIVE SortedSeq(_)
\* The keys of a std::map<int, ...> in iteration order (ascending).
SortedSeq(S) ==
    IF S = {} THEN <<>>
    ELSE LET m == CHOOSE x \in S : \A y \in S : x <= y
         IN <<m>> \o SortedSeq(S \ {m})

MakeGraph(n, E) ==
    [size     |-> n,
     children |-> [x \in Nodes(n) |-> {y \in Nodes(n) : <<x, y>> \in E}],
     parents  |-> [x \in Nodes(n) |-> {y \in Nodes(n) : <<y, x>> \in E}],
     active   |-> [x \in Nodes(n) |-> TRUE]]

(***************************************************************************)
(* The rule interface                                                       *)
(***************************************************************************)
\* PatternRule(graph, subgraph, idx): may idx be appended right now?
PatternRule(g, sub, j) ==
    CASE rules.accept = "all"           -> TRUE
      [] rules.accept = "none"          -> FALSE
      [] rules.accept = "child_of_last" ->
            Len(sub) = 0 \/ j \in g.children[sub[Len(sub)]]
      [] rules.accept = "short"         -> Len(sub) < 2
      [] rules.accept = "skip_one"      -> j # 1

\* ValidatorRule(graph, subgraph): is the subgraph a complete match?
ValidatorRule(g, sub) ==
    CASE rules.validate = "size1"        -> Len(sub) = 1
      [] rules.validate = "size_ge2"     -> Len(sub) >= 2
      [] rules.validate = "all"          -> TRUE
      [] rules.validate = "ends_at_leaf" ->
            Len(sub) > 0 /\ g.children[sub[Len(sub)]] = {}

AcceptCall(sub, j) == [op |-> "accept", sub |-> sub, cand |-> j]
ValidateCall(sub) == [op |-> "validate", sub |-> sub, cand |-> -1]

(***************************************************************************)
(* Helpers of the search                                                    *)
(***************************************************************************)
\* Mutation: the candidate is left in the subgraph.
PopBackNone(s) == s

\* subgraph.pop_back()
PopBack(s) == SubSeq(s, 1, Len(s) - 1)

\* Mutation: the candidate is not looked up in the subgraph.
NotInSubgraphAlways(sub, j) == TRUE

\* std::find(subgraph.begin(), subgraph.end(), j) == subgraph.end()
NotInSubgraph(sub, j) == \A k \in 1 .. Len(sub) : sub[k] # j

\* Mutation: the registry is not consulted.
UnmatchedAlways(m, j) == TRUE

\* !matched.at(j)
Unmatched(m, j) == ~m[j]

\* Mutation: the registry outlives the call (a static or a member).
InitMatchedKeep(g, old) ==
    IF old = <<>> THEN [x \in Nodes(g.size) |-> FALSE] ELSE old

\* std::vector<bool> matched(graph.size(), false): a local of PatternMatch,
\* built anew by every call whatever an earlier call left behind (old).
InitMatched(g, old) == [x \in Nodes(g.size) |-> FALSE]

\* Mutation: the nodes of a recorded match are not marked.
MarkMatchedNone(m, best) == m

\* for (const auto& x : best_subgraph) matched[x] = true;
MarkMatched(m, best) == [x \in DOMAIN m |-> m[x] \/ x \in Range(best)]

\* Mutation: best_subgraph is declared outside the loop over start indices.
FreshBestKeep(old) == old

\* std::vector<int> best_subgraph: a local of the loop body, empty at every
\* start index whatever the start index before left in it (old).
FreshBest(old) == <<>>

\* Mutation: >= for >, a later subgraph of the same size replaces the best.
UpdateBestLast(g, sub, best) ==
    IF ValidatorRule(g, sub) /\ Len(sub) >= Len(best) THEN sub ELSE best

\* Mutation: the largest subgraph is kept whether or not it validates.
UpdateBestNoValidate(g, sub, best) ==
    IF Len(sub) > Len(best) THEN sub ELSE best

\* if (ValidatorRule(graph, subgraph) && subgraph.size() > best.size())
\*   best_subgraph = subgraph;
UpdateBest(g, sub, best) ==
    IF ValidatorRule(g, sub) /\ Len(sub) > Len(best) THEN sub ELSE best

\* Mutation: every other node is handed to TryNeighbors.
NeighborKeysAll(g, x, phase) == SortedSeq(Nodes(g.size) \ {x})

\* Mutation: the parents are handed to TryNeighbors before the children.
NeighborKeysParentsFirst(g, x, phase) ==
    IF phase = "children" THEN SortedSeq(g.parents[x])
    ELSE SortedSeq(g.children[x])

\* The neighbor map handed to TryNeighbors, as its ascending key sequence.
NeighborKeys(g, x, phase) ==
    IF phase = "children" THEN SortedSeq(g.children[x])
    ELSE SortedSeq(g.parents[x])

\* Mutation: the scan restarts from the first node.
StartIdxZero(sub) == 0

\* start_idx of the SORTED_WRT_EXECUTION_ORDER loop
StartIdx(sub) == IF Len(sub) > 0 THEN sub[Len(sub)] + 1 ELSE 0

\* Mutation: the final else branch runs a loop instead of failing.
DispatchNoDefault(t) == "H_loop"

\* Lines 85, 112, 132, 148-150: the branch on pattern_match_type_; the final
\* else is CAFFE_NOT_IMPLEMENTED.
Dispatch(t) ==
    IF t \in {"CONNECTED_SUBGRAPH", "SORTED_WRT_EXECUTION_ORDER", "GENERAL"}
    THEN "H_loop"
    ELSE "fatal_not_implemented"

\* Mutation: the GENERAL loop starts after subgraph.back(), as the
\* SORTED_WRT_EXECUTION_ORDER loop does.
NewFrameAfterLast(sub) ==
    [size_before |-> Len(sub),
     i     |-> IF pattern_match_type_ = "CONNECTED_SUBGRAPH"
               THEN 0 ELSE StartIdx(sub),
     phase |-> IF pattern_match_type_ = "CONNECTED_SUBGRAPH"
               THEN "children" ELSE "loop",
     pos   |-> 1,
     entry |-> sub,
     tried |-> <<>>]

\* The frame of a fresh activation of PatternMatchHelper.
NewFrame(sub) ==
    [size_before |-> Len(sub),
     i     |-> IF pattern_match_type_ = "SORTED_WRT_EXECUTION_ORDER"
               THEN StartIdx(sub) ELSE 0,
     phase |-> IF pattern_match_type_ = "CONNECTED_SUBGRAPH"
               THEN "children" ELSE "loop",
     pos   |-> 1,
     entry |-> sub,      \* history: the subgraph as it was on entry
     tried |-> <<>>]     \* history: the neighbors of the current node x
                         \* offered to PatternRule so far, in this order

Top == stack[Len(stack)]

SetTop(f) == [stack EXCEPT ![Len(stack)] = f]

(***************************************************************************)
(* Initial state: ApplyTo has built the Graph (every node active) and is    *)
(* about to call PatternMatch.                                              *)
(***************************************************************************)
Init ==
    /\ \E n \in 0 .. MaxNodes : \E E \in SUBSET ForwardEdges(n) :
           graph = MakeGraph(n, E)
    /\ matched = <<>>
    /\ pattern_match_type_ \in Strategies
    /\ rules \in [accept : AcceptRules, validate : ValidateRules]
    /\ matches = <<>>
    /\ idx = 0
    /\ subgraph = <<>>
    /\ best_subgraph = <<>>
    /\ stack = <<>>
    /\ pc = "PM_call"
    /\ rp = 1
    /\ rewrites = <<>>
    /\ calls = <<>>
    /\ run = 1
    /\ first = [matches |-> <<>>, calls |-> <<>>, best |-> <<>>]

(***************************************************************************)
(* Transform::PatternMatch                                                  *)
(***************************************************************************)
\* Lines 14-22: the locals of a call.
PM_Enter ==
    /\ pc = "PM_call"
    /\ matched' = InitMatched(graph, matched)
    /\ matches' = <<>>
    /\ idx' = 0
    /\ pc' = "PM_loop"
    /\ UNCHANGED <<graph, pattern_match_type_, rules, run, first, subgraph,
                   best_subgraph, stack, rp, rewrites, calls>>

\* Lines 22-36: one start index; the start node is offered to PatternRule
\* with the empty subgraph unless it is matched already.
PM_Start ==
    /\ pc = "PM_loop"
    /\ idx < graph.size
    /\ best_subgraph' = FreshBest(best_subgraph)
    /\ IF Unmatched(matched, idx)
       THEN /\ calls' = Append(calls, AcceptCall(<<>>, idx))
            /\ IF PatternRule(graph, <<>>, idx)
               THEN subgraph' = <<idx>> /\ pc' = "H_enter"
               ELSE subgraph' = <<>> /\ pc' = "PM_commit"
       ELSE /\ calls' = calls
            /\ subgraph' = <<>>
            /\ pc' = "PM_commit"
    /\ UNCHANGED <<graph, pattern_match_type_, rules, run, first, matched,
                   matches, idx, stack, rp, rewrites>>

\* Lines 37-43: record the best subgraph of this start index, mark its nodes.
PM_Commit ==
    /\ pc = "PM_commit"
    /\ IF Len(best_subgraph) > 0
       THEN /\ matches' = Append(matches, best_subgraph)
            /\ matched' = MarkMatched(matched, best_subgraph)
       ELSE UNCHANGED <<matches, matched>>
    /\ idx' = idx + 1
    /\ pc' = "PM_loop"
    /\ UNCHANGED <<graph, pattern_match_type_, rules, run, first, subgraph,
                   best_subgraph, stack, rp, rewrites, calls>>

\* Line 44, and ApplyTo line 177: the list goes to ReplacePattern.
PM_Return ==
    /\ pc = "PM_loop"
    /\ idx >= graph.size
    /\ pc' = "RP_loop"
    /\ rp' = 1
    /\ UNCHANGED <<graph, pattern_match_type_, rules, run, first, matched,
                   matches, idx, subgraph, best_subgraph, stack,
                   rewrites, calls>>

(***************************************************************************)
(* Transform::PatternMatchHelper and Transform::TryNeighbors                *)
(***************************************************************************)
\* Lines 71-85, 112, 132, 148-150: entry of one activation.
HelperEnter ==
    /\ pc = "H_enter"
    /\ calls' = Append(calls, ValidateCall(subgraph))
    /\ best_subgraph' = UpdateBest(graph, subgraph, best_subgraph)
    /\ stack' = Append(stack, NewFrame(subgraph))
    /\ pc' = Dispatch(pattern_match_type_)
    /\ UNCHANGED <<graph, pattern_match_type_, rules, run, first, matched,
                   matches, idx, subgraph, rp, rewrites>>

\* Lines 54-62: one iteration of the loop of TryNeighbors.
TryNeighborsStep ==
    /\ pc = "H_loop"
    /\ pattern_match_type_ = "CONNECTED_SUBGRAPH"
    /\ Top.i < Len(subgraph)
    /\ LET keys == NeighborKeys(graph, subgraph[Top.i + 1], Top.phase)
       IN /\ Top.pos <= Len(keys)
          /\ LET j == keys[Top.pos]
                 next == SetTop([Top EXCEPT !.pos = @ + 1])
                 offered == [Top EXCEPT !.tried = Append(@, j)]
             IN IF NotInSubgraph(subgraph, j)
                THEN IF Unmatched(matched, j)
                     THEN /\ calls' = Append(calls, AcceptCall(subgraph, j))
                          /\ IF PatternRule(graph, subgraph, j)
                             THEN /\ subgraph' = Append(subgraph, j)
                                  /\ pc' = "H_enter"
                                  /\ stack' = SetTop(offered)
                             ELSE /\ stack' =
                                        SetTop([offered EXCEPT !.pos = @ + 1])
                                  /\ UNCHANGED <<subgraph, pc>>
                     ELSE /\ stack' = next
                          /\ UNCHANGED <<subgraph, pc, calls>>
                ELSE /\ stack' = next
                     /\ UNCHANGED <<subgraph, pc, calls>>
    /\ UNCHANGED <<graph, pattern_match_type_, rules, run, first, matched,
                   matches, idx, best_subgraph, rp, rewrites>>

\* Lines 99-101 and 108-111: TryNeighbors has returned; the size check, then
\* the parents of the same node or the next node of the subgraph.
TryNeighborsDone ==
    /\ pc = "H_loop"
    /\ pattern_match_type_ = "CONNECTED_SUBGRAPH"
    /\ Top.i < Len(subgraph)
    /\ Top.pos > Len(NeighborKeys(graph, subgraph[Top.i + 1], Top.phase))
    /\ IF Top.size_before = Len(subgraph)
       THEN /\ stack' = SetTop(IF Top.phase = "children"
                               THEN [Top EXCEPT !.phase = "parents", !.pos = 1]
                               ELSE [Top EXCEPT !.phase = "children", !.pos = 1,
                                                !.i = @ + 1, !.tried = <<>>])
            /\ pc' = pc
       ELSE /\ pc' = "fatal_enforce"
            /\ stack' = stack
    /\ UNCHANGED <<graph, pattern_match_type_, rules, run, first, matched,
                   matches, idx, subgraph, best_subgraph, rp, rewrites, calls>>

\* Line 91: the loop over the subgraph's nodes is over.
ConnectedDone ==
    /\ pc = "H_loop"
    /\ pattern_match_type_ = "CONNECTED_SUBGRAPH"
    /\ Top.i >= Len(subgraph)
    /\ pc' = "H_ret"
    /\ UNCHANGED <<graph, pattern_match_type_, rules, run, first, matched,
                   matches, idx, subgraph, best_subgraph, stack, rp,
                   rewrites, calls>>

\* Lines 125-130: one iteration of the SORTED_WRT_EXECUTION_ORDER loop.
SortedStep ==
    /\ pc = "H_loop"
    /\ pattern_match_type_ = "SORTED_WRT_EXECUTION_ORDER"
    /\ Top.i < graph.size
    /\ LET next == SetTop([Top EXCEPT !.i = @ + 1])
       IN IF Unmatched(matched, Top.i)
          THEN /\ calls' = Append(calls, AcceptCall(subgraph, Top.i))
               /\ IF PatternRule(graph, subgraph, Top.i)
                  THEN /\ subgraph' = Append(subgraph, Top.i)
                       /\ pc' = "H_enter"
                       /\ stack' = stack
                  ELSE /\ stack' = next
                       /\ UNCHANGED <<subgraph, pc>>
          ELSE /\ stack' = next
               /\ UNCHANGED <<subgraph, pc, calls>>
    /\ UNCHANGED <<graph, pattern_match_type_, rules, run, first, matched,
                   matches, idx, best_subgraph, rp, rewrites>>

\* Lines 138-147: one iteration of the GENERAL loop.
GeneralStep ==
    /\ pc = "H_loop"
    /\ pattern_match_type_ = "GENERAL"
    /\ Top.i < graph.size
    /\ LET next == SetTop([Top EXCEPT !.i = @ + 1])
       IN IF NotInSubgraph(subgraph, Top.i)
          THEN IF Unmatched(matched, Top.i)
               THEN /\ calls' = Append(calls, AcceptCall(subgraph, Top.i))
                    /\ IF PatternRule(graph, subgraph, Top.i)
                       THEN /\ subgraph' = Append(subgraph, Top.i)
                            /\ pc' = "H_enter"
                            /\ stack' = stack
                       ELSE /\ stack' = next
                            /\ UNCHANGED <<subgraph, pc>>
               ELSE /\ stack' = next
                    /\ UNCHANGED <<subgraph, pc, calls>>
          ELSE /\ stack' = next
               /\ UNCHANGED <<subgraph, pc, calls>>
    /\ UNCHANGED <<graph, pattern_match_type_, rules, run, first, matched,
                   matches, idx, best_subgraph, rp, rewrites>>

\* Lines 125 and 138: the loop over the graph's nodes is over.
LoopDone ==
    /\ pc = "H_loop"
    /\ pattern_match_type_ \in {"SORTED_WRT_EXECUTION_ORDER", "GENERAL"}
    /\ Top.i >= graph.size
    /\ pc' = "H_ret"
    /\ UNCHANGED <<graph, pattern_match_type_, rules, run, first, matched,
                   matches, idx, subgraph, best_subgraph, stack, rp,
                   rewrites, calls>>

\* Line 151 with the caller's lines 35, 60, 129 or 144: the activation ends,
\* the caller removes the candidate it appended and moves to the next one.
HelperReturn ==
    /\ pc = "H_ret"
    /\ subgraph' = PopBack(subgraph)
    /\ IF Len(stack) = 1
       THEN /\ stack' = <<>>
            /\ pc' = "PM_commit"
       ELSE /\ LET caller == stack[Len(stack) - 1]
                   rest == SubSeq(stack, 1, Len(stack) - 2)
               IN stack' = Append(rest,
                      IF pattern_match_type_ = "CONNECTED_SUBGRAPH"
                      THEN [caller EXCEPT !.pos = @ + 1]
                      ELSE [caller EXCEPT !.i = @ + 1])
            /\ pc' = "H_loop"
    /\ UNCHANGED <<graph, pattern_match_type_, rules, run, first, matched,
                   matches, idx, best_subgraph, rp, rewrites, calls>>

(***************************************************************************)
(* Transform::ReplacePattern                                                *)
(***************************************************************************)
\* Mutation: the list is gone through from its end.
MatchAtReversed(ms, r) == ms[Len(ms) - r + 1]

\* Line 156: for (const auto& match : matches), the r-th match of the list.
MatchAt(ms, r) == ms[r]

RECURSIVE IsMatchActiveFrom(_, _, _, _)
\* Lines 158-163: the flag starts true and is cleared by every inactive node.
IsMatchActiveFrom(g, match, k, flag) ==
    IF k > Len(match) THEN flag
    ELSE IsMatchActiveFrom(g, match, k + 1,
                           IF ~g.active[match[k]] THEN FALSE ELSE flag)

\* Mutation: is_match_active = graph->is_node_active(idx), the last node wins.
IsMatchActiveLast(g, match) ==
    Len(match) = 0 \/ g.active[match[Len(match)]]

IsMatchActive(g, match) == IsMatchActiveFrom(g, match, 1, TRUE)

\* What a ReplaceRule may do to the graph: it fails and leaves the graph as
\* it is, or it succeeds, deactivating the nodes it replaces: the match and
\* possibly one node next to it.
ReplaceOutcomes(g, match) ==
    {[ok |-> FALSE, off |-> {}]} \cup
    {[ok |-> TRUE, off |-> Range(match) \cup extra] :
        extra \in {{}} \cup {{x} : x \in Nodes(g.size) \ Range(match)}}

Deactivate(g, off) ==
    [g EXCEPT !.active = [x \in Nodes(g.size) |-> g.active[x] /\ x \notin off]]

\* Mutation: the result of ReplaceRule is ignored.
AfterReplaceRuleIgnored(ok) == "RP_loop"

\* Line 166-168: what follows the call of ReplaceRule.
AfterReplaceRule(ok) == IF ok THEN "RP_loop" ELSE "fatal_replace"

\* Lines 156-169, a match all of whose nodes are active: ReplaceRule is called.
RP_Rewrite ==
    /\ pc = "RP_loop"
    /\ rp <= Len(matches)
    /\ IsMatchActive(graph, MatchAt(matches, rp))
    /\ \E o \in ReplaceOutcomes(graph, MatchAt(matches, rp)) :
          /\ graph' = Deactivate(graph, o.off)
          /\ rewrites' = Append(rewrites,
                                [match |-> rp, ok |-> o.ok, off |-> o.off,
                                 nodes |-> MatchAt(matches, rp)])
          /\ pc' = AfterReplaceRule(o.ok)
          /\ rp' = IF AfterReplaceRule(o.ok) = "RP_loop" THEN rp + 1 ELSE rp
    /\ UNCHANGED <<pattern_match_type_, rules, run, first, matched, matches,
                   idx, subgraph, best_subgraph, stack, calls>>

\* Mutation: a stale match ends the loop (break for continue).
AfterSkipBreak(r, ms) == Len(ms) + 1

\* Lines 156 and 166: the condition is false, the loop goes to the next match.
AfterSkip(r, ms) == r + 1

\* Lines 156-169, a match with an inactive node: nothing is called.
RP_Skip ==
    /\ pc = "RP_loop"
    /\ rp <= Len(matches)
    /\ ~IsMatchActive(graph, MatchAt(matches, rp))
    /\ rp' = AfterSkip(rp, matches)
    /\ UNCHANGED <<graph, pattern_match_type_, rules, run, first, matched,
                   matches, idx, subgraph, best_subgraph, stack, pc,
                   rewrites, calls>>

\* Line 170, and ApplyTo line 178: the graph is exported.
RP_Done ==
    /\ pc = "RP_loop"
    /\ rp > Len(matches)
    /\ pc' = "done"
    /\ UNCHANGED <<graph, pattern_match_type_, rules, run, first, matched,
                   matches, idx, subgraph, best_subgraph, stack, rp,
                   rewrites, calls>>

(***************************************************************************)
(* Transform::ApplyTo                                                       *)
(***************************************************************************)
Next ==
    \/ PM_Enter
    \/ PM_Start
    \/ PM_Commit
    \/ PM_Return
    \/ HelperEnter
    \/ TryNeighborsStep
    \/ TryNeighborsDone
    \/ ConnectedDone
    \/ SortedStep
    \/ GeneralStep
    \/ LoopDone
    \/ HelperReturn
    \/ RP_Rewrite
    \/ RP_Skip
    \/ RP_Done

Spec == Init /\ [][Next]_vars

\* ApplyTo runs on one thread, which takes its next step whenever it has one.
SpecFair == Spec /\ WF_vars(Next)

(***************************************************************************)
(* A second call of PatternMatch on the same graph, by the same transform.  *)
(***************************************************************************)
\* The first call has returned its list; what it returned and the rule calls
\* it made are kept, and PatternMatch is called again.
Rerun ==
    /\ pc = "RP_loop"
    /\ rp = 1
    /\ rewrites = <<>>
    /\ run = 1
    /\ first' = [matches |-> matches, calls |-> calls, best |-> <<>>]
    /\ run' = 2
    /\ calls' = <<>>
    /\ pc' = "PM_call"
    /\ UNCHANGED <<graph, pattern_match_type_, rules, matched, matches, idx,
                   subgraph, best_subgraph, stack, rp, rewrites>>

NextTwice == Next \/ Rerun

SpecTwice == Init /\ [][NextTwice]_vars

(***************************************************************************)
(* One start index expanded twice from the same state of PatternMatch:      *)
(* under the transform's strategy, then under GENERAL.                      *)
(***************************************************************************)
\* The expansion of start index idx under CONNECTED_SUBGRAPH or
\* SORTED_WRT_EXECUTION_ORDER is over; what it visited and found best is
\* kept, and the same start index is expanded under GENERAL, with the same
\* graph, rules and registry.
Compare ==
    /\ pc = "PM_commit"
    /\ run = 1
    /\ pattern_match_type_ \in
          {"CONNECTED_SUBGRAPH", "SORTED_WRT_EXECUTION_ORDER"}
    /\ first' = [matches |-> matches, calls |-> calls,
                 best |-> best_subgraph]
    /\ run' = 2
    /\ calls' = <<>>
    /\ pattern_match_type_' = "GENERAL"
    /\ pc' = "PM_loop"
    /\ UNCHANGED <<graph, rules, matched, matches, idx, subgraph,
                   best_subgraph, stack, rp, rewrites>>

NextCompare ==
    \/ PM_Enter
    \/ PM_Start
    \/ (run = 1 /\ PM_Commit)
    \/ HelperEnter
    \/ TryNeighborsStep
    \/ TryNeighborsDone
    \/ ConnectedDone
    \/ SortedStep
    \/ GeneralStep
    \/ LoopDone
    \/ HelperReturn
    \/ Compare

SpecCompare == Init /\ [][NextCompare]_vars

(***************************************************************************)
(* Properties                                                               *)
(***************************************************************************)
\* PatternMatch has returned its list (to ApplyTo, which applies it).
Returned == pc \in {"RP_loop", "done", "fatal_replace"}

Matches == {matches[a] : a \in 1 .. Len(matches)}

Distinct(m) == \A k, l \in 1 .. Len(m) : k # l => m[k] # m[l]

Adjacent(g, x, y) == y \in g.children[x] \/ y \in g.parents[x]

\* The chain A -> B -> C, with A, B, C at the indices 0, 1, 2.
IsChainABC(g) ==
    /\ g.size = 3
    /\ g.children = MakeGraph(3, {<<0, 1>>, <<1, 2>>}).children

\* C1: no node index occurs in two different matches of the list that one
\* call of PatternMatch builds and returns, whatever the graph, the rules
\* and the strategy.
C1_MatchesDisjoint ==
    \A a, b \in 1 .. Len(matches) :
        a # b => Range(matches[a]) \cap Range(matches[b]) = {}

C1_Witness ==
    /\ pc = "RP_loop"
    /\ Len(matches) >= 2
    /\ \E a \in 1 .. Len(matches) : Len(matches[a]) >= 2

\* C2: every match of the list has pairwise distinct node indices, each of
\* its elements was accepted by PatternRule on the elements before it (the
\* first one on the empty subgraph), and ValidatorRule holds of the match.
C2_MatchesAcceptedAndValid ==
    \A m \in Matches :
        /\ Distinct(m)
        /\ \A k \in 1 .. Len(m) : PatternRule(graph, SubSeq(m, 1, k - 1), m[k])
        /\ ValidatorRule(graph, m)

C2_Witness ==
    /\ pc = "RP_loop"
    /\ rules = [accept |-> "child_of_last", validate |-> "ends_at_leaf"]
    /\ \E m \in Matches : Len(m) >= 3

\* C3: when ReplacePattern reaches a match, ReplaceRule is called on it if
\* and only if every node of the match is active at that moment; otherwise
\* the match is passed over and the graph is left as it is.
C3_RewriteIffAllActive ==
    [][(pc = "RP_loop" /\ rp <= Len(matches)) =>
         LET all_active == \A x \in Range(matches[rp]) : graph.active[x]
         IN /\ (Len(rewrites') = Len(rewrites) + 1) <=> all_active
            /\ ~all_active => (graph' = graph /\ rewrites' = rewrites)]_vars

\* A match was passed over because an earlier ReplaceRule deactivated one
\* of its nodes, while another of its nodes is still active.
C3_Witness ==
    \E k \in 1 .. Len(matches) :
        /\ k < rp
        /\ \A e \in Range(rewrites) : e.match # k
        /\ \E e \in Range(rewrites) :
              e.ok /\ e.match < k /\ e.off \cap Range(matches[k]) # {}
        /\ \E x \in Range(matches[k]) : graph.active[x]

\* C4: a ReplaceRule that returns false ends ReplacePattern with a fatal
\* error at once: it is the last call of ReplaceRule ever made, and what
\* the earlier calls deactivated stays deactivated.
C4_RewriteFailureAborts ==
    /\ \A k \in 1 .. Len(rewrites) :
          ~rewrites[k].ok =>
              /\ k = Len(rewrites)
              /\ pc = "fatal_replace"
              /\ rewrites[k].match = rp
    /\ \A k \in 1 .. Len(rewrites) :
          rewrites[k].ok => \A x \in rewrites[k].off : ~graph.active[x]
    /\ pc = "fatal_replace" =>
          Len(rewrites) > 0 /\ ~rewrites[Len(rewrites)].ok

C4_Witness ==
    /\ pc = "fatal_replace"
    /\ Len(rewrites) >= 2
    /\ rp < Len(matches)

\* C5: under CONNECTED_SUBGRAPH every element of a returned match but the
\* first is a parent or a child of an element before it in the match.
C5_ConnectedMatches ==
    pattern_match_type_ = "CONNECTED_SUBGRAPH" =>
        \A m \in Matches : \A k \in 2 .. Len(m) :
            \E l \in 1 .. (k - 1) : Adjacent(graph, m[l], m[k])

\* A match whose third node hangs on the first, not on the second.
C5_Witness ==
    /\ pattern_match_type_ = "CONNECTED_SUBGRAPH"
    /\ pc = "RP_loop"
    /\ \E m \in Matches :
          /\ Len(m) >= 3
          /\ ~Adjacent(graph, m[2], m[3])

\* C6: under SORTED_WRT_EXECUTION_ORDER the node indices of every returned
\* match are strictly increasing along the match.
C6_SortedMatches ==
    pattern_match_type_ = "SORTED_WRT_EXECUTION_ORDER" =>
        \A m \in Matches : \A k \in 1 .. (Len(m) - 1) : m[k] < m[k + 1]

\* A match that steps over a node.
C6_Witness ==
    /\ pattern_match_type_ = "SORTED_WRT_EXECUTION_ORDER"
    /\ pc = "RP_loop"
    /\ \E m \in Matches : Len(m) >= 2 /\ m[2] > m[1] + 1

ScenarioA ==
    /\ IsChainABC(graph)
    /\ rules = [accept |-> "all", validate |-> "size1"]
    /\ pattern_match_type_ = "CONNECTED_SUBGRAPH"

\* C7: on the chain A -> B -> C, with PatternRule always true and
\* ValidatorRule true of the subgraphs of size 1 only, PatternMatch under
\* CONNECTED_SUBGRAPH returns the three matches [A], [B], [C], in this order.
C7_ScenarioA ==
    (ScenarioA /\ Returned) => matches = << <<0>>, <<1>>, <<2>> >>

C7_Witness ==
    ScenarioA /\ pc = "RP_loop" /\ matches = << <<0>>, <<1>>, <<2>> >>

ScenarioB ==
    /\ IsChainABC(graph)
    /\ rules = [accept |-> "all", validate |-> "size_ge2"]
    /\ pattern_match_type_ = "CONNECTED_SUBGRAPH"

\* C8: on the same chain, with ValidatorRule true of the subgraphs of size 2
\* or more, PatternMatch under CONNECTED_SUBGRAPH returns one match, which
\* holds A, B and C and starts at A; B and C are matched by the time they
\* are start indices and are not offered to PatternRule as start nodes.
C8_ScenarioB ==
    ScenarioB =>
        /\ Returned =>
              /\ Len(matches) = 1
              /\ Range(matches[1]) = {0, 1, 2}
              /\ matches[1][1] = 0
        /\ (pc = "PM_loop" /\ idx \in {1, 2}) => matched[idx]
        /\ \A c \in Range(calls) :
              (c.op = "accept" /\ c.sub = <<>>) => c.cand = 0

C8_Witness ==
    ScenarioB /\ pc = "RP_loop" /\ matches = << <<0, 1, 2>> >>

\* C9: a second call of PatternMatch on the same graph, with the same rules
\* and the same strategy, makes the same PatternRule and ValidatorRule calls
\* in the same order and returns the same list of matches.
C9_Deterministic ==
    run = 2 =>
        /\ Len(calls) <= Len(first.calls)
        /\ calls = SubSeq(first.calls, 1, Len(calls))
        /\ Returned => (matches = first.matches /\ calls = first.calls)

C9_Witness ==
    /\ run = 2
    /\ pc = "RP_loop"
    /\ Len(matches) >= 2
    /\ \E m \in Matches : Len(m) >= 2
    /\ \E c \in Range(calls) :
          c.op = "accept" /\ ~PatternRule(graph, c.sub, c.cand)

\* C10: when an activation of PatternMatchHelper is in its loop (at first,
\* and again after each recursive call has returned and the candidate has
\* been removed) the working subgraph is the sequence it was on entry; so
\* the size check never fails, and the working subgraph is empty when a
\* start index has been dealt with.
C10_SubgraphRestored ==
    /\ pc = "H_loop" =>
          /\ subgraph = Top.entry
          /\ Len(subgraph) = Top.size_before
    /\ pc # "fatal_enforce"
    /\ pc \in {"PM_commit", "PM_loop"} => subgraph = <<>>

\* A recursive call made from this activation has returned to it.
C10_Witness ==
    /\ pc = "H_loop"
    /\ pattern_match_type_ = "CONNECTED_SUBGRAPH"
    /\ Len(subgraph) >= 2
    /\ \E c \in Range(calls) :
          /\ c.op = "validate"
          /\ Len(c.sub) = Len(subgraph) + 1
          /\ SubSeq(c.sub, 1, Len(subgraph)) = subgraph

\* The subgraphs visited from start index s so far (each is handed to
\* ValidatorRule on entry of its activation), in the order of the visits.
VisitedFrom(log, s) ==
    LET FromS(c) == c.op = "validate" /\ c.sub[1] = s
    IN SelectSeq(log, FromS)

\* Those of them that ValidatorRule accepts.
ValidVisitedFrom(log, s) ==
    LET Valid(c) == ValidatorRule(graph, c.sub)
    IN SelectSeq(VisitedFrom(log, s), Valid)

\* The expansion of start index idx is under way or just over.
Expanding == pc \in {"H_loop", "H_ret", "PM_commit"}

\* C11: during and after the expansion of a start index, best_subgraph is
\* the first, in the order of the visits, of the largest subgraphs visited
\* from this start index that ValidatorRule accepts (empty if there is
\* none); so it never shrinks, a later subgraph of the same size never
\* replaces it, and it is what the start index records as its match.
C11_BestIsFirstLargest ==
    (run = 1 /\ Expanding) =>
        LET V == ValidVisitedFrom(calls, idx)
        IN IF Len(V) = 0
           THEN best_subgraph = <<>>
           ELSE \E k \in 1 .. Len(V) :
                   /\ best_subgraph = V[k].sub
                   /\ \A l \in 1 .. Len(V) :
                         /\ Len(V[l].sub) <= Len(V[k].sub)
                         /\ l < k => Len(V[l].sub) < Len(V[k].sub)

\* Two accepted subgraphs of the largest size were visited; the first won.
C11_Witness ==
    /\ run = 1
    /\ pc = "PM_commit"
    /\ LET V == ValidVisitedFrom(calls, idx)
       IN \E k, l \in 1 .. Len(V) :
             /\ k < l
             /\ best_subgraph = V[k].sub
             /\ Len(V[l].sub) = Len(V[k].sub)
             /\ V[l].sub # V[k].sub

\* An activation under CONNECTED_SUBGRAPH is at a node x of the subgraph.
AtNode ==
    /\ pc \in {"H_loop", "H_enter", "H_ret"}
    /\ pattern_match_type_ = "CONNECTED_SUBGRAPH"

\* The neighbors in S that may be offered to PatternRule by frame f: those
\* not in the subgraph of f and not matched.
Offerable(f, S) ==
    LET Free(y) == NotInSubgraph(f.entry, y) /\ Unmatched(matched, y)
    IN SelectSeq(SortedSeq(S), Free)

IsPrefix(s, t) == Len(s) <= Len(t) /\ s = SubSeq(t, 1, Len(s))

Ascending(s) == \A k \in 1 .. (Len(s) - 1) : s[k] < s[k + 1]

\* C12 as stated: for each node x of the working subgraph, the neighbors of
\* x offered to PatternRule are offered in ascending index order, parents
\* and children taken together.
C12_AscendingOverall ==
    AtNode => \A k \in 1 .. Len(stack) : Ascending(stack[k].tried)

\* C12 as amended: for each node x of the working subgraph, the children of
\* x are offered to PatternRule first, in ascending index order, and the
\* parents of x after them, in ascending index order.
C12_ChildrenThenParents ==
    AtNode =>
        \A k \in 1 .. Len(stack) :
            LET f == stack[k]
                x == f.entry[f.i + 1]
                kids == Offerable(f, graph.children[x])
                folks == Offerable(f, graph.parents[x])
            IN f.i < Len(f.entry) =>
                  /\ IsPrefix(f.tried, kids \o folks)
                  /\ f.phase = "children" => IsPrefix(f.tried, kids)
                  /\ f.phase = "parents" => IsPrefix(kids, f.tried)

\* A child of x and then a parent of x, of smaller index, have been offered.
C12_Witness ==
    /\ AtNode
    /\ Len(stack) > 0
    /\ Top.phase = "parents"
    /\ Len(Top.tried) >= 2
    /\ \E k \in 1 .. (Len(Top.tried) - 1) : Top.tried[k] > Top.tried[k + 1]

\* C13: PatternRule is never called with a candidate that is marked in the
\* matched registry or that is a member of the working subgraph, and no
\* marked node becomes a start node or is appended to the working subgraph.
C13_MatchedNeverOffered ==
    [][/\ (Len(calls') = Len(calls) + 1 /\ calls'[Len(calls')].op = "accept")
          => LET c == calls'[Len(calls')]
             IN /\ c.sub = subgraph
                /\ ~matched[c.cand]
                /\ c.cand \notin Range(c.sub)
       /\ Len(subgraph') = Len(subgraph) + 1
          => LET j == subgraph'[Len(subgraph')]
             IN /\ ~matched[j]
                /\ j \notin Range(subgraph)]_vars

\* The GENERAL loop has just passed over a matched node without a call.
C13_Witness ==
    /\ pc = "H_loop"
    /\ pattern_match_type_ = "GENERAL"
    /\ Top.i > 0
    /\ Top.i <= graph.size
    /\ matched[Top.i - 1]
    /\ (Top.i - 1) \notin Range(subgraph)
    /\ \A c \in Range(calls) :
          ~(c.op = "accept" /\ c.sub = subgraph /\ c.cand = Top.i - 1)

\* PatternRule has accepted a candidate in this call.
SomeAccepted ==
    \E c \in Range(calls) :
        c.op = "accept" /\ PatternRule(graph, c.sub, c.cand)

\* C14 as stated: with a pattern_match_type_ that is none of the three
\* strategies, PatternMatch never returns a list, whatever the graph and
\* the rules.
C14_UnknownNeverReturns ==
    pattern_match_type_ = "UNKNOWN" => ~Returned

\* C14 as amended: with such a pattern_match_type_, PatternMatch ends in a
\* fatal error on the first entry of PatternMatchHelper, that is as soon as
\* PatternRule accepts a start node; if no start node is accepted (or the
\* graph is empty) it returns the empty list.
C14_UnknownFatalOnceAccepted ==
    pattern_match_type_ = "UNKNOWN" =>
        /\ SomeAccepted => pc \in {"H_enter", "fatal_not_implemented"}
        /\ pc = "fatal_not_implemented" => (SomeAccepted /\ Len(stack) = 1)
        /\ pc \notin {"H_loop", "H_ret"}
        /\ Returned => (matches = <<>> /\ ~SomeAccepted)

C14_Witness ==
    /\ pattern_match_type_ = "UNKNOWN"
    /\ pc = "fatal_not_implemented"
    /\ graph.size >= 2
    /\ subgraph = <<0>>

Stale(k) == \E x \in Range(matches[k]) : ~graph.active[x]

Rewritten(k) == \E e \in Range(rewrites) : e.match = k

\* ReplacePattern has gone through its list: every match has been rewritten
\* or was stale when its turn came (a node once inactive stays inactive).
AllDealtWith ==
    pc = "done" => \A k \in 1 .. Len(matches) : Rewritten(k) \/ Stale(k)

\* C15: passing over a stale match changes nothing in the graph, calls no
\* ReplaceRule and does not end ReplacePattern: the loop goes on with the next
\* match, and when it ends every match has been rewritten or was stale.
C15_SkipIsNotAbort ==
    [][/\ (pc = "RP_loop" /\ rp <= Len(matches) /\ Stale(rp)) =>
             /\ graph' = graph
             /\ rewrites' = rewrites
             /\ pc' = "RP_loop"
             /\ rp' = rp + 1
       /\ AllDealtWith']_vars

\* A stale match was passed over and a later match was rewritten.
C15_Witness ==
    \E k \in 1 .. Len(matches) :
        /\ k < rp
        /\ ~Rewritten(k)
        /\ \E e \in Range(rewrites) : e.match > k /\ e.ok

\* PatternMatch is running.
Matching ==
    pc \in {"PM_call", "PM_loop", "PM_commit", "H_enter", "H_loop", "H_ret"}

\* C16: in ApplyTo, PatternMatch changes nothing in the graph and no
\* ReplaceRule is called while it runs; once it has returned it is not run
\* again (its list and its registry stay as they are); and ReplaceRule is
\* called on the matches of the list in the order of the list, at most once
\* on each.
C16_MatchThenReplaceInOrder ==
    [][/\ Matching => (graph' = graph /\ rewrites' = rewrites)
       /\ Returned =>
             /\ Returned'
             /\ matches' = matches
             /\ matched' = matched
             /\ calls' = calls
       /\ rewrites' # rewrites =>
             /\ Returned
             /\ \E e \in [match : {rp}, ok : BOOLEAN,
                          off : SUBSET Nodes(graph.size),
                          nodes : {matches[rp]}] :
                   rewrites' = Append(rewrites, e)
             /\ \A e \in Range(rewrites) : e.match < rp]_vars

\* Two matches have been rewritten, one after the other.
C16_Witness ==
    /\ pc = "done"
    /\ Len(rewrites) >= 2
    /\ rewrites[1].nodes # rewrites[2].nodes

\* The nodes marked in the registry, and the nodes of the recorded matches.
MarkedNodes == {x \in DOMAIN matched : matched[x]}

NodesOfMatches == UNION {Range(m) : m \in Matches}

\* C17: during a call of PatternMatch a node once marked in the registry
\* stays marked, a match once in the list stays in it, unchanged and at its
\* place, and the marked nodes are exactly the nodes of the matches
\* recorded so far.
C17_CommitIrrevocable ==
    [][/\ \A x \in DOMAIN matched : matched[x] => matched'[x]
       /\ IsPrefix(matches, matches')
       /\ MarkedNodes' = NodesOfMatches']_vars

\* Two matches are recorded, their nodes are marked, the scan goes on.
C17_Witness ==
    /\ pc = "PM_loop"
    /\ idx < graph.size
    /\ Len(matches) >= 2
    /\ MarkedNodes = NodesOfMatches
    /\ MarkedNodes # Nodes(graph.size)

\* C18: PatternMatch terminates for every graph, rule pair and recognized
\* strategy.  The working subgraph holds pairwise distinct nodes, so neither
\* it nor the recursion is ever deeper than the number of nodes; and when a
\* recursive call returns, the caller finds its subgraph at the size it had
\* and the graph as it was, and its loop moves on to the next candidate.
C18_Terminates ==
    /\ [][/\ Distinct(subgraph')
          /\ Len(subgraph') <= graph.size
          /\ Len(stack') <= graph.size
          /\ (pc = "H_ret" /\ Len(stack) > 1) =>
                LET caller == stack[Len(stack) - 1]
                    back == stack'[Len(stack')]
                IN /\ Len(stack') = Len(stack) - 1
                   /\ Len(subgraph') = back.size_before
                   /\ graph' = graph
                   /\ back.i + back.pos = caller.i + caller.pos + 1]_vars
    /\ pattern_match_type_ # "UNKNOWN" => <>Returned

\* The recursion has reached the depth of the number of nodes.
C18_Witness ==
    /\ pc = "H_loop"
    /\ graph.size >= 3
    /\ Len(stack) = graph.size
    /\ Len(subgraph) = graph.size

\* C19: the list of matches grows only when a start index is done, by one
\* match, whose first element is this start index; so a start index yields
\* at most one match and the first elements of the matches of the list are
\* strictly ascending along the list.
C19_OneMatchPerStart ==
    [][/\ matches' # matches =>
             /\ pc = "PM_commit"
             /\ idx' = idx + 1
             /\ Len(matches') = Len(matches) + 1
             /\ SubSeq(matches', 1, Len(matches)) = matches
             /\ matches'[Len(matches')][1] = idx
             /\ \A a \in 1 .. Len(matches) : matches[a][1] < idx
       /\ \A a, b \in 1 .. Len(matches') :
             a < b => matches'[a][1] < matches'[b][1]]_vars

\* Two matches; the start index between theirs yielded none.
C19_Witness ==
    /\ pc = "RP_loop"
    /\ Len(matches) >= 2
    /\ matches[2][1] > matches[1][1] + 1

\* The subgraphs visited from start index s, as a set.
VisitedSet(log, s) == {c.sub : c \in Range(VisitedFrom(log, s))}

\* C20: from the same graph, rules, start index and registry, every working
\* subgraph visited under CONNECTED_SUBGRAPH or SORTED_WRT_EXECUTION_ORDER
\* is visited under GENERAL too, and the best subgraph found under GENERAL
\* is at least as large.
C20_GeneralMostPermissive ==
    (run = 2 /\ pc = "PM_commit") =>
        /\ VisitedSet(first.calls, idx) \subseteq VisitedSet(calls, idx)
        /\ Len(best_subgraph) >= Len(first.best)

\* With nodes marked in the registry, GENERAL visited more and found a
\* larger best subgraph.
C20_Witness ==
    /\ run = 2
    /\ pc = "PM_commit"
    /\ MarkedNodes # {}
    /\ VisitedSet(first.calls, idx) # {}
    /\ VisitedSet(first.calls, idx) # VisitedSet(calls, idx)
    /\ Len(best_subgraph) > Len(first.best)

====
